---- MODULE Spec2Model ----
(***************************************************************************)
(* Model of src/core/enum_type.hpp: the enum helpers (increment/decrement, *)
(* bitwise flag operators, HasFlag/ToggleFlag) and the EnumBitSet          *)
(* container.                                                              *)
(*                                                                         *)
(* The templates are instantiated as in the documented scenario: an enum   *)
(* with an 8-bit unsigned underlying type, Tstorage = uint8_t and          *)
(* Tend_value = 4.  An enum value is represented by its underlying         *)
(* integer, a bit-set by its storage word `data`.                          *)
(***************************************************************************)
EXTENDS Integers, Sequences, FiniteSets

VARIABLES
    obj,     \* SpecApi: the storage words of three EnumBitSet objects
    n,       \* SpecApi: number of API calls made so far
    data,    \* EnumBitSet::data of the bit-set under test
    other,   \* EnumBitSet::data of a second bit-set (an operand / a reference object)
    hist,    \* the most recent calls on `data`, oldest first: [op, value, before]
    raw,     \* argument of the last raw-storage construction
    values,  \* argument of the last initializer-list construction
    k,       \* how many of `values` have been Set on `other` so far
    result,  \* the last query made and what it returned
    e,       \* an enum variable stepped by ++ / --
    ret,     \* value returned by the last ++ / --
    x,       \* ToggleFlag's in/out argument
    y,       \* ToggleFlag's flag argument
    pc       \* position of the ToggleFlag caller

vars == <<obj, n, data, other, hist, raw, values, k, result, e, ret, x, y, pc>>

----------------------------------------------------------------------------
(* Template parameters and integer widths *)

\* std::numeric_limits<Tstorage>::digits for Tstorage = uint8_t
Digits == 8

\* Tend_value: last valid value + 1
Tend_value == 4

\* digits of the enum's underlying type (uint8_t)
EnumDigits == 8

\* 2^i
RECURSIVE Pow2(_)
Pow2(i) == IF i = 0 THEN 1 ELSE 2 * Pow2(i - 1)

\* std::numeric_limits<Tstorage>::max()
StorageMax == Pow2(Digits) - 1

\* every value of Tstorage
StorageWords == 0..StorageMax

\* every value of the enum's underlying type
EnumWords == 0..(Pow2(EnumDigits) - 1)

\* enum values whose bit position lies inside the storage word
EnumValues == 0..(Digits - 1)

\* enum values below Tend_value
ValidValues == 0..(Tend_value - 1)

----------------------------------------------------------------------------
(* Built-in integer operators, on non-negative integers *)

RECURSIVE BitAnd(_, _)
BitAnd(a, b) ==
    IF a = 0 \/ b = 0 THEN 0
    ELSE (a % 2) * (b % 2) + 2 * BitAnd(a \div 2, b \div 2)

RECURSIVE BitOr(_, _)
BitOr(a, b) ==
    IF a = 0 THEN b
    ELSE IF b = 0 THEN a
    ELSE (IF a % 2 = 1 \/ b % 2 = 1 THEN 1 ELSE 0) + 2 * BitOr(a \div 2, b \div 2)

RECURSIVE BitXor(_, _)
BitXor(a, b) ==
    IF a = 0 THEN b
    ELSE IF b = 0 THEN a
    ELSE ((a + b) % 2) + 2 * BitXor(a \div 2, b \div 2)

\* a >> s
Shr(a, s) == a \div Pow2(s)

\* 1ULL << s, for s below the width of unsigned long long
Shl1(s) == Pow2(s)

\* conversion of a non-negative integer to Tstorage
ToStorage(a) == a % Pow2(Digits)

\* the low Digits bits of ~a; the higher bits of the complement never meet a
\* Tstorage operand
NotLow(a) == StorageMax - ToStorage(a)

\* bit i of a word, as a boolean
Bit(a, i) == (a \div Pow2(i)) % 2 = 1

----------------------------------------------------------------------------
(* Enum helpers *)

to_underlying(v) == v

\* static_cast<enum_type>(i): conversion to the 8-bit underlying type
to_enum(i) == i % Pow2(EnumDigits)

\* prefix ++ : the new value of the operand (which is also what is returned)
PreInc(v) == to_enum(to_underlying(v) + 1)

\* prefix -- : the new value of the operand
PreDec(v) == to_enum(to_underlying(v) - 1)

\* a postfix ++ that returns the stepped value
PostIncReturnsNew(v) == <<PreInc(v), PreInc(v)>>

\* postfix ++ : <<new value of the operand, returned value>>
PostInc(v) == LET e_org == v IN <<PreInc(v), e_org>>

\* postfix -- : <<new value of the operand, returned value>>
PostDec(v) == LET e_org == v IN <<PreDec(v), e_org>>

\* DECLARE_ENUM_AS_BIT_SET operators
EnumOr(m1, m2) == to_enum(BitOr(to_underlying(m1), to_underlying(m2)))
EnumAnd(m1, m2) == to_enum(BitAnd(to_underlying(m1), to_underlying(m2)))
EnumXor(m1, m2) == to_enum(BitXor(to_underlying(m1), to_underlying(m2)))
\* ~ on the promoted int is -m - 1; converted back it is 2^EnumDigits - 1 - m
EnumNot(m) == to_enum((0 - to_underlying(m)) - 1)

HasFlag(fx, fy) == EnumAnd(fx, fy) = fy

\* a toggle that flips every bit of y on its own
ToggleFlagXor(fx, fy) == EnumXor(fx, fy)

\* the value of x after ToggleFlag(x, y)
ToggleFlag(fx, fy) ==
    IF HasFlag(fx, fy) THEN EnumAnd(fx, EnumNot(fy)) ELSE EnumOr(fx, fy)

----------------------------------------------------------------------------
(* EnumBitSet, as functions of the storage word *)

MASK == Shr(StorageMax, Digits - to_underlying(Tend_value))

\* a Set that assigns the bit instead of or-ing it in
SetAssign(d, value) == ToStorage(Shl1(to_underlying(value)))

Set(d, value) == ToStorage(BitOr(d, Shl1(to_underlying(value))))

Reset(d, value) == ToStorage(BitAnd(d, NotLow(Shl1(to_underlying(value)))))

Test(d, value) == BitAnd(d, Shl1(to_underlying(value))) # 0

\* a Flip without its Reset branch
FlipSetOnly(d, value) == Set(d, value)

Flip(d, value) == IF Test(d, value) THEN Reset(d, value) ELSE Set(d, value)

DefaultCtor == 0

ValueCtor(value) == Set(0, value)

\* a raw-storage constructor that does not mask
RawCtorUnmasked(r) == r

RawCtor(r) == BitAnd(r, MASK)

RECURSIVE ListFrom(_, _)
ListFrom(d, vs) == IF vs = <<>> THEN d ELSE ListFrom(Set(d, Head(vs)), Tail(vs))

\* an initializer-list constructor that flips instead of setting
RECURSIVE ListFromToggling(_, _)
ListFromToggling(d, vs) ==
    IF vs = <<>> THEN d ELSE ListFromToggling(Flip(d, Head(vs)), Tail(vs))

ListCtorToggling(vs) == ListFromToggling(0, vs)

ListCtor(vs) == ListFrom(0, vs)

\* an All that only asks for a common bit
AllAsAny(d, o) == BitAnd(d, o) # 0

All(d, o) == BitAnd(d, o) = o

Any(d, o) == BitAnd(d, o) # 0

OpOr(d, o) == RawCtor(ToStorage(BitOr(d, o)))

OpAnd(d, o) == RawCtor(ToStorage(BitAnd(d, o)))

IsValid(d) == BitAnd(d, MASK) = d

base(d) == d

\* defaulted operator<=>: member-wise on data
Equal(d, o) == d = o
Less(d, o) == d < o

----------------------------------------------------------------------------
(* Input sets *)

\* longest initializer list tried by SpecCtor
MaxListLen == 3

\* longest initializer list tried by SpecApi
MaxApiListLen == 2

\* most Set calls made on `data` by SpecQuery
MaxSets == 2

\* longest sequence of API calls explored by SpecApi
MaxOps == 3

\* initializer lists of enum values, duplicates allowed
ListsUpTo(len) == UNION {[1..m -> EnumValues] : m \in 0..len}
Lists == ListsUpTo(MaxListLen)
ApiLists == ListsUpTo(MaxApiListLen)

Objs == 1..3

----------------------------------------------------------------------------
(* SpecApi: three EnumBitSet objects driven through the public API *)

apiRest == <<data, other, hist, raw, values, k, result, e, ret, x, y, pc>>

NoResult == [op |-> "none", val |-> FALSE]

\* the three objects of SpecApi, default-constructed and not yet used
ApiIdle ==
    /\ obj = [i \in Objs |-> DefaultCtor]
    /\ n = 0

\* the bit-sets `data` and `other`, default-constructed and not yet used
BitSetIdle ==
    /\ data = DefaultCtor
    /\ other = DefaultCtor
    /\ raw = 0
    /\ values = <<>>
    /\ k = 0
    /\ result = NoResult

\* the enum variables, zero-initialised and not yet used
EnumIdle ==
    /\ e = 0
    /\ ret = 0
    /\ x = 0
    /\ y = 0

InitApi ==
    /\ ApiIdle
    /\ BitSetIdle
    /\ EnumIdle
    /\ hist = <<>>
    /\ pc = "idle"

\* obj[i] = EnumBitSet()
ApiDefault(i) ==
    /\ n < MaxOps
    /\ obj' = [obj EXCEPT ![i] = DefaultCtor]
    /\ n' = n + 1
    /\ UNCHANGED apiRest

\* obj[i] = EnumBitSet(value)
ApiValue(i, value) ==
    /\ n < MaxOps
    /\ obj' = [obj EXCEPT ![i] = ValueCtor(value)]
    /\ n' = n + 1
    /\ UNCHANGED apiRest

\* obj[i] = EnumBitSet{values...}
ApiList(i, vs) ==
    /\ n < MaxOps
    /\ obj' = [obj EXCEPT ![i] = ListCtor(vs)]
    /\ n' = n + 1
    /\ UNCHANGED apiRest

\* obj[i] = EnumBitSet(Tstorage r)
ApiRaw(i, r) ==
    /\ n < MaxOps
    /\ obj' = [obj EXCEPT ![i] = RawCtor(r)]
    /\ n' = n + 1
    /\ UNCHANGED apiRest

\* obj[i].Set(value)
ApiSet(i, value) ==
    /\ n < MaxOps
    /\ obj' = [obj EXCEPT ![i] = Set(obj[i], value)]
    /\ n' = n + 1
    /\ UNCHANGED apiRest

\* obj[i].Reset(value)
ApiReset(i, value) ==
    /\ n < MaxOps
    /\ obj' = [obj EXCEPT ![i] = Reset(obj[i], value)]
    /\ n' = n + 1
    /\ UNCHANGED apiRest

\* obj[i].Flip(value)
ApiFlip(i, value) ==
    /\ n < MaxOps
    /\ obj' = [obj EXCEPT ![i] = Flip(obj[i], value)]
    /\ n' = n + 1
    /\ UNCHANGED apiRest

\* obj[i] = obj[j] | obj[m]
ApiOr(i, j, m) ==
    /\ n < MaxOps
    /\ obj' = [obj EXCEPT ![i] = OpOr(obj[j], obj[m])]
    /\ n' = n + 1
    /\ UNCHANGED apiRest

\* obj[i] = obj[j] & obj[m]
ApiAnd(i, j, m) ==
    /\ n < MaxOps
    /\ obj' = [obj EXCEPT ![i] = OpAnd(obj[j], obj[m])]
    /\ n' = n + 1
    /\ UNCHANGED apiRest

NextApi ==
    \/ \E i \in Objs : ApiDefault(i)
    \/ \E i \in Objs, value \in EnumValues : ApiValue(i, value)
    \/ \E i \in Objs, vs \in ApiLists : ApiList(i, vs)
    \/ \E i \in Objs, r \in StorageWords : ApiRaw(i, r)
    \/ \E i \in Objs, value \in EnumValues : ApiSet(i, value)
    \/ \E i \in Objs, value \in EnumValues : ApiReset(i, value)
    \/ \E i \in Objs, value \in EnumValues : ApiFlip(i, value)
    \/ \E i, j, m \in Objs : ApiOr(i, j, m)
    \/ \E i, j, m \in Objs : ApiAnd(i, j, m)

SpecApi == InitApi /\ [][NextApi]_vars

----------------------------------------------------------------------------
(* History of calls *)

Call(op, value, before) == [op |-> op, value |-> value, before |-> before]

\* keep the last two calls
Push(h, c) == IF Len(h) < 2 THEN Append(h, c) ELSE Append(Tail(h), c)

Last(h) == h[Len(h)]

----------------------------------------------------------------------------
(* SpecCtor: the raw-storage and initializer-list constructors, and a       *)
(* reference object built by default construction and one Set per value    *)

ctorRest == <<obj, n, hist, result, e, ret, x, y>>

InitCtor ==
    /\ ApiIdle
    /\ BitSetIdle
    /\ EnumIdle
    /\ hist = <<>>
    /\ pc = "idle"

\* data = EnumBitSet(Tstorage r)
CtorRaw(r) ==
    /\ pc = "idle"
    /\ data' = RawCtor(r)
    /\ raw' = r
    /\ values' = <<>>
    /\ other' = DefaultCtor
    /\ k' = 0
    /\ pc' = "raw"
    /\ UNCHANGED ctorRest

\* data = EnumBitSet{vs...}; other = EnumBitSet()
CtorList(vs) ==
    /\ pc = "idle"
    /\ data' = ListCtor(vs)
    /\ values' = vs
    /\ raw' = 0
    /\ other' = DefaultCtor
    /\ k' = 0
    /\ pc' = "list"
    /\ UNCHANGED ctorRest

\* other.Set(values[k + 1])
CtorSetNext ==
    /\ pc = "list"
    /\ k < Len(values)
    /\ other' = Set(other, values[k + 1])
    /\ k' = k + 1
    /\ UNCHANGED <<data, raw, values, pc>>
    /\ UNCHANGED ctorRest

NextCtor ==
    \/ \E r \in StorageWords : CtorRaw(r)
    \/ \E vs \in Lists : CtorList(vs)
    \/ CtorSetNext

SpecCtor == InitCtor /\ [][NextCtor]_vars

----------------------------------------------------------------------------
(* SpecMut: one bit-set, default-constructed, then any Set/Reset/Flip calls *)

mutRest == <<obj, n, other, raw, values, k, result, e, ret, x, y, pc>>

InitMut ==
    /\ ApiIdle
    /\ BitSetIdle
    /\ EnumIdle
    /\ hist = <<>>
    /\ pc = "idle"

MutSet(value) ==
    /\ data' = Set(data, value)
    /\ hist' = Push(hist, Call("Set", value, data))
    /\ UNCHANGED mutRest

MutReset(value) ==
    /\ data' = Reset(data, value)
    /\ hist' = Push(hist, Call("Reset", value, data))
    /\ UNCHANGED mutRest

MutFlip(value) ==
    /\ data' = Flip(data, value)
    /\ hist' = Push(hist, Call("Flip", value, data))
    /\ UNCHANGED mutRest

NextMut ==
    \/ \E value \in EnumValues : MutSet(value)
    \/ \E value \in EnumValues : MutReset(value)
    \/ \E value \in EnumValues : MutFlip(value)

SpecMut == InitMut /\ [][NextMut]_vars

----------------------------------------------------------------------------
(* SpecQuery: `data` built from empty by Set calls (all logged), an operand *)
(* `other` built by Set calls, and the queries All and Any                 *)

queryRest == <<obj, n, raw, values, k, e, ret, x, y, pc>>

InitQuery ==
    /\ ApiIdle
    /\ BitSetIdle
    /\ EnumIdle
    /\ hist = <<>>
    /\ pc = "idle"

\* data.Set(value)
QuerySet(value) ==
    /\ Len(hist) < MaxSets
    /\ data' = Set(data, value)
    /\ hist' = Append(hist, Call("Set", value, data))
    /\ result' = NoResult
    /\ UNCHANGED other
    /\ UNCHANGED queryRest

\* other.Set(value)
QuerySetOther(value) ==
    /\ other' = Set(other, value)
    /\ result' = NoResult
    /\ UNCHANGED <<data, hist>>
    /\ UNCHANGED queryRest

\* data.All(other)
QueryAll ==
    /\ result' = [op |-> "All", val |-> All(data, other)]
    /\ UNCHANGED <<data, other, hist>>
    /\ UNCHANGED queryRest

\* data.Any(other)
QueryAny ==
    /\ result' = [op |-> "Any", val |-> Any(data, other)]
    /\ UNCHANGED <<data, other, hist>>
    /\ UNCHANGED queryRest

NextQuery ==
    \/ \E value \in EnumValues : QuerySet(value)
    \/ \E value \in EnumValues : QuerySetOther(value)
    \/ QueryAll
    \/ QueryAny

SpecQuery == InitQuery /\ [][NextQuery]_vars

----------------------------------------------------------------------------
(* SpecStep: an incrementable enum variable stepped by ++ and --           *)

stepRest == <<obj, n, data, other, raw, values, k, result, x, y, pc>>

\* e starts at any declared value of the enum
InitStep ==
    /\ ApiIdle
    /\ BitSetIdle
    /\ e \in ValidValues
    /\ ret = 0
    /\ x = 0
    /\ y = 0
    /\ hist = <<>>
    /\ pc = "idle"

\* ret = ++e
StepPreInc ==
    /\ e' = PreInc(e)
    /\ ret' = e'
    /\ hist' = Push(hist, Call("PreInc", 0, e))
    /\ UNCHANGED stepRest

\* ret = e++
StepPostInc ==
    /\ e' = PostInc(e)[1]
    /\ ret' = PostInc(e)[2]
    /\ hist' = Push(hist, Call("PostInc", 0, e))
    /\ UNCHANGED stepRest

\* ret = --e
StepPreDec ==
    /\ e' = PreDec(e)
    /\ ret' = e'
    /\ hist' = Push(hist, Call("PreDec", 0, e))
    /\ UNCHANGED stepRest

\* ret = e--
StepPostDec ==
    /\ e' = PostDec(e)[1]
    /\ ret' = PostDec(e)[2]
    /\ hist' = Push(hist, Call("PostDec", 0, e))
    /\ UNCHANGED stepRest

NextStep ==
    \/ StepPreInc
    \/ StepPostInc
    \/ StepPreDec
    \/ StepPostDec

SpecStep == InitStep /\ [][NextStep]_vars

----------------------------------------------------------------------------
(* SpecFlag: one call ToggleFlag(x, y) on any pair of flag-enum values     *)

flagRest == <<obj, n, data, other, raw, values, k, result, e, ret, y>>

InitFlag ==
    /\ ApiIdle
    /\ BitSetIdle
    /\ e = 0
    /\ ret = 0
    /\ x \in EnumWords
    /\ y \in EnumWords
    /\ hist = <<>>
    /\ pc = "call"

\* ToggleFlag(x, y)
FlagToggle ==
    /\ pc = "call"
    /\ x' = ToggleFlag(x, y)
    /\ hist' = <<Call("ToggleFlag", y, x)>>
    /\ pc' = "done"
    /\ UNCHANGED flagRest

NextFlag == FlagToggle

SpecFlag == InitFlag /\ [][NextFlag]_vars

----------------------------------------------------------------------------
(* Properties *)

Positions == 0..(Digits - 1)

Range(f) == {f[i] : i \in DOMAIN f}

\* C1: every bit-set reachable through the public API (constructors, Set,
\* Reset, Flip, operator|, operator&, with enum values below the storage
\* width) satisfies IsValid(): no bit outside MASK is set.
C1_ReachableBitSetsAreValid == \A i \in Objs : IsValid(obj[i])

\* C2: the raw-storage constructor keeps exactly the low Tend_value bits of
\* the raw word r (base() == r & MASK), and IsValid() is true on the result.
C2_RawCtorMasks ==
    pc = "raw" =>
        /\ \A i \in Positions :
               Bit(base(data), i) <=> (i < Tend_value /\ Bit(raw, i))
        /\ base(data) = raw % Pow2(Tend_value)
        /\ base(data) <= StorageMax
        /\ IsValid(data)

\* C2 witness: a raw word with out-of-range high bits and in-range bits was
\* passed to the raw-storage constructor.
C2_Witness == pc = "raw" /\ raw > MASK /\ base(data) # 0 /\ base(data) # raw

\* C3: a default-constructed bit-set has Test(v) false for every valid v;
\* after Set(v), Test(v) is true and every other bit is as it was before.
C3_SetFrame ==
    /\ hist = <<>> => \A v \in ValidValues : ~Test(data, v)
    /\ (hist # <<>> /\ Last(hist).op = "Set") =>
           LET v == Last(hist).value
               before == Last(hist).before
           IN  /\ Test(data, v)
               /\ \A w \in EnumValues \ {v} : Test(data, w) = Test(before, w)
               /\ \A i \in Positions :
                      Bit(data, i) <=> (i = to_underlying(v) \/ Bit(before, i))

\* C3 witness: Set(v) was called on a non-empty bit-set that did not hold v.
C3_Witness ==
    /\ hist # <<>>
    /\ Last(hist).op = "Set"
    /\ Last(hist).before # 0
    /\ ~Test(Last(hist).before, Last(hist).value)
    /\ Last(hist).value \in ValidValues

\* C4: Flip(v) twice in succession restores the storage word, and a single
\* Flip(v) negates Test(v).
C4_FlipInvolution ==
    /\ (hist # <<>> /\ Last(hist).op = "Flip") =>
           Test(data, Last(hist).value) # Test(Last(hist).before, Last(hist).value)
    /\ (/\ Len(hist) = 2
        /\ hist[1].op = "Flip"
        /\ hist[2].op = "Flip"
        /\ hist[1].value = hist[2].value) => data = hist[1].before

\* C4 witness: the same value was flipped twice in succession on a bit-set
\* holding other values.
C4_Witness ==
    /\ Len(hist) = 2
    /\ hist[1].op = "Flip"
    /\ hist[2].op = "Flip"
    /\ hist[1].value = hist[2].value
    /\ hist[1].before # 0
    /\ hist[2].before # hist[1].before

\* C5: the initializer-list constructor yields the bit-set obtained by default
\* construction followed by Set on each listed value in order, and the result
\* depends only on the set of listed values.
C5_ListCtorIsSetSequence ==
    (pc = "list" /\ k = Len(values)) =>
        /\ Equal(data, other)
        /\ \A vs \in Lists : Range(vs) = Range(values) => Equal(ListCtor(vs), data)
        /\ \A i \in Positions : Bit(data, i) <=> (i \in Range(values))

\* C5 witness: a list with a duplicate and two distinct values was given, and
\* the reference object has received every Set.
C5_Witness ==
    /\ pc = "list"
    /\ Len(values) = 3
    /\ k = Len(values)
    /\ Cardinality(Range(values)) = 2
    /\ values[1] = values[3]

\* C6: operator| and operator& are commutative and associative on bit-sets
\* obtained through the public API, and (a | b) & a == a.
C6_OrAndAlgebra ==
    \A i, j, m \in Objs :
        LET a == obj[i]
            b == obj[j]
            c == obj[m]
        IN  /\ Equal(OpOr(a, b), OpOr(b, a))
            /\ Equal(OpAnd(a, b), OpAnd(b, a))
            /\ Equal(OpOr(OpOr(a, b), c), OpOr(a, OpOr(b, c)))
            /\ Equal(OpAnd(OpAnd(a, b), c), OpAnd(a, OpAnd(b, c)))
            /\ Equal(OpAnd(OpOr(a, b), a), a)

\* C7: All(other) is true iff every bit of other is set in this, Any(other)
\* iff they share a bit; All is reflexive, Any is reflexive on non-empty sets,
\* All(empty) is true and Any(empty) is false; and after Set(0), Set(2) on an
\* empty set base() is 0b0101, Test(1) is false, All({0,2}) is true and
\* Any({1,3}) is false.
C7_AllAny ==
    /\ result.op = "All" =>
           (result.val <=> \A i \in Positions : Bit(other, i) => Bit(data, i))
    /\ result.op = "Any" =>
           (result.val <=> \E i \in Positions : Bit(other, i) /\ Bit(data, i))
    /\ All(data, data)
    /\ Any(data, data) <=> (\E v \in EnumValues : Test(data, v))
    /\ All(data, DefaultCtor)
    /\ ~Any(data, DefaultCtor)
    /\ (Len(hist) = 2 /\ hist[1].value = 0 /\ hist[2].value = 2) =>
           /\ base(data) = 5
           /\ ~Test(data, 1)
           /\ All(data, ListCtor(<<0, 2>>))
           /\ ~Any(data, ListCtor(<<1, 3>>))

\* C7 witness: after Set(0), Set(2) on the empty set, All was asked against
\* the operand {0, 2} and answered true.
C7_Witness ==
    /\ Len(hist) = 2
    /\ hist[1].value = 0
    /\ hist[2].value = 2
    /\ hist[1].before = DefaultCtor
    /\ other = ListCtor(<<0, 2>>)
    /\ result.op = "All"
    /\ result.val

\* the values strictly inside the enum's declared range
StrictlyInside(v) == v - 1 \in ValidValues /\ v + 1 \in ValidValues

\* C8: prefix ++ then prefix -- (and -- then ++) returns the operand to its
\* original value for every value strictly inside the declared range; the
\* postfix forms change the operand as the prefix forms do and return the
\* value held before the step.
C8_StepRoundTrip ==
    /\ (/\ Len(hist) = 2
        /\ StrictlyInside(hist[1].before)
        /\ \/ hist[1].op = "PreInc" /\ hist[2].op = "PreDec"
           \/ hist[1].op = "PreDec" /\ hist[2].op = "PreInc") => e = hist[1].before
    /\ (hist # <<>> /\ Last(hist).op = "PostInc") =>
           /\ e = PreInc(Last(hist).before)
           /\ e = (Last(hist).before + 1) % Pow2(EnumDigits)
           /\ ret = Last(hist).before
    /\ (hist # <<>> /\ Last(hist).op = "PostDec") =>
           /\ e = PreDec(Last(hist).before)
           /\ e = (Last(hist).before + Pow2(EnumDigits) - 1) % Pow2(EnumDigits)
           /\ ret = Last(hist).before
    /\ (hist # <<>> /\ Last(hist).op \in {"PreInc", "PreDec"}) => ret = e

\* C8 witness: a value strictly inside the declared range was incremented and
\* then decremented, the decrement being the last step.
C8_Witness ==
    /\ Len(hist) = 2
    /\ StrictlyInside(hist[1].before)
    /\ hist[1].op = "PreInc"
    /\ hist[2].op = "PreDec"
    /\ hist[2].before # hist[1].before

\* C9: two bit-sets obtained through the public API compare equal iff their
\* storage words are equal after masking with MASK, and they are ordered as
\* their storage words are.
C9_EqualIffMaskedEqual ==
    \A i, j \in Objs :
        /\ Equal(obj[i], obj[j]) <=>
               (BitAnd(base(obj[i]), MASK) = BitAnd(base(obj[j]), MASK))
        /\ Less(obj[i], obj[j]) <=> (base(obj[i]) < base(obj[j]))

\* C10: ToggleFlag(x, y) makes x equal to x & ~y when HasFlag(x, y) held before
\* the call and to x | y when it did not; bits of x outside y are unchanged.
C10_ToggleFlag ==
    pc = "done" =>
        LET x0 == hist[1].before
            had == \A j \in 0..(EnumDigits - 1) : Bit(y, j) => Bit(x0, j)
        IN  /\ HasFlag(x0, y) <=> had
            /\ HasFlag(x0, y) => x = EnumAnd(x0, EnumNot(y))
            /\ ~HasFlag(x0, y) => x = EnumOr(x0, y)
            /\ \A i \in 0..(EnumDigits - 1) :
                   Bit(x, i) <=> (IF Bit(y, i) THEN ~had ELSE Bit(x0, i))

\* C10 witness: ToggleFlag was called with a multi-bit y that only partly
\* overlaps x.
C10_Witness ==
    /\ pc = "done"
    /\ EnumAnd(hist[1].before, y) # 0
    /\ EnumAnd(hist[1].before, y) # y
    /\ EnumAnd(hist[1].before, EnumNot(y)) # 0

====
